---- MODULE Spec2Model ----
(***************************************************************************)
(* Model of the HTML cleaning engine (src/word_html_cleaner.py,            *)
(* src/htmlrag_cleaner.py) and of the conversion cache protocol            *)
(* (src/docling_mcp/tools/conversion.py).                                  *)
(*                                                                         *)
(* An HTML string is represented by the sequence of lexical tokens the     *)
(* html.parser tokenizer feeds to its handlers (start tag, end tag, data,  *)
(* comment, doctype); a text is a sequence of one-character strings.  The  *)
(* parsed tree is an arena: a function from node ids to nodes, id 0 being  *)
(* the BeautifulSoup object, each element naming its children in order.    *)
(***************************************************************************)
EXTENDS Integers, Sequences, FiniteSets, TLC

\* ------------------------------------------------------------------ text

\* U+00A0, one character: white space for str.strip(), kept by concat_text.
NBSP == "nbsp"

\* bs4's ASCII_SPACES, the characters endData() folds.
ASCII_SPACES == {" ", "\n", "\t", "\f", "\r"}

\* The characters str.strip() removes (str.isspace()).
PyWhitespace == ASCII_SPACES \cup {NBSP}

Digits == {"0", "1", "2", "3", "4", "5", "6", "7", "8", "9"}

\* The sequences seqs[lo..hi] joined, by halves.
RECURSIVE ConcatRange(_, _, _)
ConcatRange(seqs, lo, hi) ==
    IF lo > hi THEN <<>>
    ELSE IF lo = hi THEN seqs[lo]
    ELSE ConcatRange(seqs, lo, (lo + hi) \div 2)
            \o ConcatRange(seqs, (lo + hi) \div 2 + 1, hi)

Concat(seqs) == ConcatRange(seqs, 1, Len(seqs))

\* The numbers s[lo..hi] added, by halves.
RECURSIVE SumRange(_, _, _)
SumRange(s, lo, hi) ==
    IF lo > hi THEN 0
    ELSE IF lo = hi THEN s[lo]
    ELSE SumRange(s, lo, (lo + hi) \div 2) + SumRange(s, (lo + hi) \div 2 + 1, hi)

SumSeq(s) == SumRange(s, 1, Len(s))

\* The indices of a sequence, in order.
Indices(s) == <<>> \o [i \in 1..Len(s) |-> i]

\* A function with every value computed.
Strict(f) == [x \in {} |-> x] @@ f

\* text with the characters of chars taken out.
Without(text, chars) ==
    LET Keep(c) == c \notin chars IN SelectSeq(text, Keep)

\* "".join(text.split(c)) for c in "\n", "\t", " " in turn.
concat_text(text) == Without(Without(Without(text, {"\n"}), {"\t"}), {" "})

\* not text.strip(): every character is white space.
IsBlank(text) == \A i \in 1..Len(text) : text[i] \in PyWhitespace

Range(s) == {s[i] : i \in 1..Len(s)}

\* ---------------------------------------------------------------- tokens

EmptyAttrs == [k \in {} |-> ""]

StartTag(name, attrs) == [k |-> "start", name |-> name, attrs |-> attrs, s |-> <<>>]
EndTag(name) == [k |-> "end", name |-> name, attrs |-> EmptyAttrs, s |-> <<>>]
Data(s) == [k |-> "data", name |-> "", attrs |-> EmptyAttrs, s |-> s]
CommentTok(s) == [k |-> "comment", name |-> "", attrs |-> EmptyAttrs, s |-> s]
\* a void element as bs4 writes it: <name/>
StartEndTag(name, attrs) == [k |-> "startend", name |-> name, attrs |-> attrs, s |-> <<>>]
DoctypeTok == [k |-> "doctype", name |-> "", attrs |-> EmptyAttrs, s |-> <<>>]

\* HTMLTreeBuilder.empty_element_tags (the ones the model's inputs use).
empty_element_tags == {"br", "meta", "link"}

\* html.parser's CDATA_CONTENT_ELEMENTS.
CDATA_CONTENT_ELEMENTS == {"script", "style"}

\* Adjacent runs of character data are one string.
MergeData(toks) ==
    LET IsData(i) == toks[i].k = "data"
        Starts(i) == ~IsData(i) \/ i = 1 \/ ~IsData(i - 1)
        RunEnd(i) == CHOOSE j \in i..Len(toks) :
                        /\ \A k \in i..j : IsData(k)
                        /\ j = Len(toks) \/ ~IsData(j + 1)
        Merged(i) == IF IsData(i)
                     THEN Data(Concat(<<>> \o [k \in 1..(RunEnd(i) - i + 1) |->
                                                 toks[i + k - 1].s]))
                     ELSE toks[i]
        starts == SelectSeq(Indices(toks), Starts)
    IN <<>> \o [n \in 1..Len(starts) |-> Merged(starts[n])]

\* ------------------------------------------------------------------ tree

DocNode == [kind |-> "doc", name |-> "[document]", attrs |-> EmptyAttrs,
            s |-> <<>>, contents |-> <<>>, decomposed |-> FALSE]

NewNode(kind, name, attrs, s) ==
    [kind |-> kind, name |-> name, attrs |-> attrs, s |-> s,
     contents |-> <<>>, decomposed |-> FALSE]

Ids(soup) == DOMAIN soup

IsTag(soup, n) == soup[n].kind = "tag"

\* tag.name; a decomposed tag has lost its __dict__, so the lookup falls to
\* __getattr__ and find("name"), which is None.
NameOf(soup, n) == IF soup[n].decomposed THEN "None" ELSE soup[n].name

HasParent(soup, n) == \E p \in Ids(soup) : n \in Range(soup[p].contents)

ParentOf(soup, n) == CHOOSE p \in Ids(soup) : n \in Range(soup[p].contents)

IndexIn(s, x) == CHOOSE i \in 1..Len(s) : s[i] = x

\* tag.descendants: document order, the tag itself excluded.
RECURSIVE descendants(_, _)
descendants(soup, n) ==
    LET kids == soup[n].contents
    IN Concat(<<>> \o [i \in 1..Len(kids) |-> <<kids[i]>> \o descendants(soup, kids[i])])

Attached(soup, n) == n = 0 \/ n \in Range(descendants(soup, 0))

\* tag.get_text() / tag.text: the NavigableStrings below the tag, joined.
\* Comments and doctypes are other string classes and are left out.
get_text(soup, n) ==
    IF soup[n].kind = "text" THEN soup[n].s
    ELSE LET d == descendants(soup, n)
         IN Concat(<<>> \o [i \in 1..Len(d) |->
                              IF soup[d[i]].kind = "text" THEN soup[d[i]].s ELSE <<>>])

\* tag.find_all(names, recursive=...)
find_all(soup, n, names, recursive) ==
    LET pool == IF recursive THEN descendants(soup, n) ELSE soup[n].contents
        Keep(x) == IsTag(soup, x) /\ NameOf(soup, x) \in names
    IN SelectSeq(pool, Keep)

\* soup.find_all() / soup.find_all(True): every tag.
all_tags(soup) ==
    LET Keep(x) == IsTag(soup, x) IN SelectSeq(descendants(soup, 0), Keep)

\* element.extract(): the element leaves its parent's contents.
extract(soup, n) ==
    IF ~HasParent(soup, n) THEN soup
    ELSE LET p == ParentOf(soup, n)
             c == soup[p].contents
             i == IndexIn(c, n)
         IN [soup EXCEPT ![p].contents = SubSeq(c, 1, i - 1) \o SubSeq(c, i + 1, Len(c))]

\* tag.decompose(): extract, then the tag and everything below it is emptied.
ClearAll(soup, list) ==
    Strict([x \in DOMAIN soup |->
              IF x \in Range(list)
              THEN [soup[x] EXCEPT !.contents = <<>>, !.decomposed = TRUE]
              ELSE soup[x]])

decompose(soup, n) == ClearAll(extract(soup, n), <<n>> \o descendants(soup, n))

\* tag.unwrap() / tag.replace_with_children(): the children take the tag's place.
unwrap(soup, n) ==
    LET p == ParentOf(soup, n)
        c == soup[p].contents
        i == IndexIn(c, n)
    IN [soup EXCEPT ![p].contents = SubSeq(c, 1, i - 1) \o soup[n].contents
                                      \o SubSeq(c, i + 1, Len(c)),
                    ![n].contents = <<>>]

\* ---------------------------------------------------------------- parser

\* endData(): a string of ASCII white space only becomes "\n" or " ".
endData(s) ==
    IF \A i \in 1..Len(s) : s[i] \in ASCII_SPACES
    THEN IF "\n" \in Range(s) THEN <<"\n">> ELSE <<" ">>
    ELSE s

AddChild(soup, parent, node) ==
    [soup EXCEPT ![parent].contents = Append(@, Cardinality(Ids(soup)))]
        @@ (Cardinality(Ids(soup)) :> node)

\* _popToTag(name): the open tags down to the most recent one called name
\* are closed; an end tag that closes no open tag is dropped.
popToTag(soup, tagStack, name) ==
    LET hits == {i \in 1..Len(tagStack) : soup[tagStack[i]].name = name}
    IN IF hits = {} THEN tagStack
       ELSE SubSeq(tagStack, 1, (CHOOSE i \in hits : \A j \in hits : j <= i) - 1)

\* One token handled: [soup, tagStack] after handle_starttag, handle_endtag,
\* handle_data, handle_comment or handle_decl.
Handle(st, t) ==
    LET soup == st.soup
        tagStack == st.tagStack
        currentTag == IF tagStack = <<>> THEN 0 ELSE tagStack[Len(tagStack)]
        id == Cardinality(Ids(soup))
    IN CASE t.k = "start" ->
              [soup |-> AddChild(soup, currentTag, NewNode("tag", t.name, t.attrs, <<>>)),
               tagStack |-> IF t.name \in empty_element_tags THEN tagStack
                            ELSE Append(tagStack, id)]
         [] t.k = "startend" ->
              [soup |-> AddChild(soup, currentTag, NewNode("tag", t.name, t.attrs, <<>>)),
               tagStack |-> tagStack]
         [] t.k = "end" ->
              [soup |-> soup, tagStack |-> popToTag(soup, tagStack, t.name)]
         [] t.k = "data" ->
              [soup |-> AddChild(soup, currentTag,
                                 NewNode("text", "", EmptyAttrs, endData(t.s))),
               tagStack |-> tagStack]
         [] t.k = "comment" ->
              [soup |-> AddChild(soup, currentTag, NewNode("comment", "", EmptyAttrs, t.s)),
               tagStack |-> tagStack]
         [] OTHER ->
              [soup |-> AddChild(soup, currentTag, NewNode("doctype", "", EmptyAttrs, t.s)),
               tagStack |-> tagStack]

\* feed(): the tokens toks[lo..hi] handled in order, by halves.  The test
\* on st has the tree of the first half computed before the second begins.
RECURSIVE feed(_, _, _, _)
feed(toks, lo, hi, st) ==
    IF lo > hi \/ 0 \notin Ids(st.soup) THEN st
    ELSE IF lo = hi THEN Handle(st, toks[lo])
    ELSE feed(toks, (lo + hi) \div 2 + 1, hi, feed(toks, lo, (lo + hi) \div 2, st))

\* BeautifulSoup(html, 'html.parser')
BeautifulSoup(html) ==
    LET toks == MergeData(html)
    IN feed(toks, 1, Len(toks), [soup |-> (0 :> DocNode), tagStack |-> <<>>]).soup

\* ------------------------------------------------------------ serializer

\* str(soup): decode() of every node in document order.
RECURSIVE decode(_, _)
decode(soup, n) ==
    LET node == soup[n]
        kids == node.contents
        inner == Concat(<<>> \o [i \in 1..Len(kids) |-> decode(soup, kids[i])])
    IN CASE node.kind = "doc" -> inner
         [] node.kind = "tag" ->
              IF node.name \in empty_element_tags /\ node.contents = <<>>
              THEN <<StartEndTag(node.name, node.attrs)>>
              ELSE <<StartTag(node.name, node.attrs)>> \o inner \o <<EndTag(node.name)>>
         [] node.kind = "text" -> IF node.s = <<>> THEN <<>> ELSE <<Data(node.s)>>
         [] node.kind = "comment" -> <<CommentTok(node.s)>>
         [] OTHER -> <<DoctypeTok>>

str(soup) == MergeData(decode(soup, 0))

\* ------------------------------------------------------------ classifier

None == -1

TableStructure == {"table", "tbody", "thead", "tr", "td", "th"}

WordNoiseTags == {"script", "style", "meta", "link"}

RagNoiseTags == {"script", "style"}

\* tag.find(names): the first matching descendant, or None.
find(soup, n, names) ==
    LET hits == find_all(soup, n, names, TRUE)
    IN IF hits = <<>> THEN None ELSE hits[1]

\* The rows is_wrapper_table and contains_tabular_data_pattern look at: the
\* direct tr children, replaced by the direct rows of table.find('tbody')
\* (the first tbody anywhere below the table) when there is one.
table_rows(soup, table) ==
    LET tbody == find(soup, table, {"tbody"})
    IN IF tbody # None THEN find_all(soup, tbody, {"tr"}, FALSE)
       ELSE find_all(soup, table, {"tr"}, FALSE)

row_cells(soup, row) == find_all(soup, row, {"td", "th"}, FALSE)

\* len(re.findall(r'\d+[.,]\d+|\d{3,}', text)).  The scan goes by runs of
\* digits.  Runs joined by a single "." or "," form a chain; the scan pairs
\* them off from the left (\d+[.,]\d+ takes two runs whole), and a run left
\* without a partner matches when it has three digits or more.
CountNumbers(text) ==
    LET IsDigit(i) == i >= 1 /\ i <= Len(text) /\ text[i] \in Digits
        RunStart(i) == IsDigit(i) /\ ~IsDigit(i - 1)
        starts == {i \in 1..Len(text) : RunStart(i)}
        RunEnd(i) == CHOOSE j \in i..Len(text) :
                        (\A k \in i..j : IsDigit(k)) /\ ~IsDigit(j + 1)
        Linked(i) == i > 2 /\ text[i - 1] \in {".", ","} /\ IsDigit(i - 2)
        HasNext(i) == text[RunEnd(i) + 1] \in {".", ","} /\ IsDigit(RunEnd(i) + 2)
        ChainHead(i) == CHOOSE h \in starts :
                           /\ h <= i
                           /\ ~Linked(h)
                           /\ \A r \in starts : (h < r /\ r <= i) => Linked(r)
        Position(i) == Cardinality({r \in starts : ChainHead(i) <= r /\ r <= i})
        Matches(i) == /\ Position(i) % 2 = 1
                      /\ \/ RunEnd(i) + 2 <= Len(text) /\ HasNext(i)
                         \/ RunEnd(i) - i + 1 >= 3
    IN Cardinality({i \in starts : Matches(i)})

AllIn(text, from, n, chars) ==
    /\ from + n - 1 <= Len(text)
    /\ \A k \in from..(from + n - 1) : text[k] \in chars

\* re.search(r'\d{1,2}[:/]\d{1,2}[:/]\d{2,4}', text)
HasDate(text) ==
    \E i \in 1..Len(text), a \in 1..2, b \in 1..2 :
        /\ AllIn(text, i, a, Digits)
        /\ AllIn(text, i + a, 1, {":", "/"})
        /\ AllIn(text, i + a + 1, b, Digits)
        /\ AllIn(text, i + a + 1 + b, 1, {":", "/"})
        /\ AllIn(text, i + a + b + 2, 2, Digits)

\* re.search(r'\d{1,2}:\d{2}:\d{2}', text)
HasTime(text) ==
    \E i \in 1..Len(text), a \in 1..2 :
        /\ AllIn(text, i, a, Digits)
        /\ AllIn(text, i + a, 1, {":"})
        /\ AllIn(text, i + a + 1, 2, Digits)
        /\ AllIn(text, i + a + 3, 1, {":"})
        /\ AllIn(text, i + a + 4, 2, Digits)

\* re.search(r'(AM|PM)', text)
HasMeridiem(text) ==
    \E i \in 1..(Len(text) - 1) : text[i] \in {"A", "P"} /\ text[i + 1] = "M"

NumbersThreshold == 5

RowsThreshold == 3

CellsThreshold == 4

contains_tabular_data_pattern(soup, table) ==
    LET text == get_text(soup, table)
        rows == table_rows(soup, table)
        cell_counts == <<>> \o [i \in 1..Len(rows) |-> Len(row_cells(soup, rows[i]))]
    IN \/ CountNumbers(text) > NumbersThreshold
       \/ HasDate(text) \/ HasTime(text) \/ HasMeridiem(text)
       \/ /\ Len(rows) >= RowsThreshold
          /\ Cardinality(Range(cell_counts)) <= 2
          /\ \E i \in 1..Len(rows) : cell_counts[i] >= 2
       \/ find(soup, table, {"th"}) # None

is_wrapper_table(soup, table) ==
    LET rows == table_rows(soup, table)
        cells == find_all(soup, table, {"td", "th"}, FALSE)
        total_cells == SumSeq(<<>> \o [i \in 1..Len(rows) |-> Len(row_cells(soup, rows[i]))])
    IN \/ Len(rows) = 0
       \/ Len(rows) = 1 /\ Len(row_cells(soup, rows[1])) <= 1
       \/ /\ Len(cells) > 0
          /\ \A i \in 1..Len(cells) : find(soup, cells[i], {"table"}) # None
       \/ total_cells < CellsThreshold /\ ~contains_tabular_data_pattern(soup, table)

\* The number of parents above the table, the BeautifulSoup object included.
RECURSIVE get_table_depth(_, _)
get_table_depth(soup, n) ==
    IF ~HasParent(soup, n) THEN 0 ELSE 1 + get_table_depth(soup, ParentOf(soup, n))

\* The number of parents above the table that are tables.
RECURSIVE get_table_nesting_depth(_, _)
get_table_nesting_depth(soup, n) ==
    IF ~HasParent(soup, n) THEN 0
    ELSE LET p == ParentOf(soup, n)
         IN (IF NameOf(soup, p) = "table" THEN 1 ELSE 0) + get_table_nesting_depth(soup, p)

\* ---------------------------------------------------------------- passes

\* A variant that collapses a wrapper only onto a child without element
\* children.
CollapseOneLeafChild(soup, tag, exempt) ==
    LET NotStr(x) == IsTag(soup, x)
        children == SelectSeq(soup[tag].contents, NotStr)
    IN IF NameOf(soup, tag) \in exempt THEN soup
       ELSE IF /\ Len(children) = 1
               /\ SelectSeq(soup[children[1]].contents, NotStr) = <<>>
               /\ concat_text(get_text(soup, children[1])) = concat_text(get_text(soup, tag))
            THEN unwrap(soup, tag)
            ELSE soup

\* One iteration of the redundant-wrapper loop.
CollapseOne(soup, tag, exempt) ==
    LET NotStr(x) == IsTag(soup, x)
        children == SelectSeq(soup[tag].contents, NotStr)
        tag_text == get_text(soup, tag)
    IN IF NameOf(soup, tag) \in exempt THEN soup
       ELSE IF /\ Len(children) = 1
               /\ concat_text(get_text(soup, children[1])) = concat_text(tag_text)
            THEN unwrap(soup, tag)
            ELSE soup

\* A variant that tests only the strings directly inside the tag.
PruneOneOwnText(st, tag, exempt) ==
    LET IsStr(x) == st.soup[x].kind = "text"
        own == SelectSeq(st.soup[tag].contents, IsStr)
    IN IF NameOf(st.soup, tag) \in exempt THEN st
       ELSE IF \A i \in 1..Len(own) : IsBlank(st.soup[own[i]].s)
            THEN [soup |-> decompose(st.soup, tag), removed |-> TRUE]
            ELSE st

\* A variant that reports an empty tag and leaves it in the tree.
PruneOneFlagOnly(st, tag, exempt) ==
    IF NameOf(st.soup, tag) \in exempt THEN st
    ELSE IF IsBlank(get_text(st.soup, tag))
         THEN [soup |-> st.soup, removed |-> TRUE]
         ELSE st

\* One iteration of the empty-tag loop: st is [soup, removed].
PruneOne(st, tag, exempt) ==
    IF NameOf(st.soup, tag) \in exempt THEN st
    ELSE IF IsBlank(get_text(st.soup, tag))
         THEN [soup |-> decompose(st.soup, tag), removed |-> TRUE]
         ELSE st

\* The body of one of the loops over tags, applied to tag: st is [soup, removed].
Visit(op, st, tag, exempt) ==
    CASE op = "decompose" -> [st EXCEPT !.soup = decompose(@, tag)]
      [] op = "extract" -> [st EXCEPT !.soup = extract(@, tag)]
      [] op = "unwrap" -> [st EXCEPT !.soup = unwrap(@, tag)]
      [] op = "collapse" -> [st EXCEPT !.soup = CollapseOne(@, tag, exempt)]
      [] op = "prune" -> PruneOne(st, tag, exempt)

\* "for tag in list:" over list[lo..hi] in order, by halves.  The test on st
\* has the tree of the first half computed before the second begins.
RECURSIVE ForEach(_, _, _, _, _, _)
ForEach(op, st, list, lo, hi, exempt) ==
    IF lo > hi \/ 0 \notin Ids(st.soup) THEN st
    ELSE IF lo = hi THEN Visit(op, st, list[lo], exempt)
    ELSE ForEach(op, ForEach(op, st, list, lo, (lo + hi) \div 2, exempt),
                 list, (lo + hi) \div 2 + 1, hi, exempt)

Loop(op, soup, list, exempt) ==
    ForEach(op, [soup |-> soup, removed |-> FALSE], list, 1, Len(list), exempt)

DecomposeAll(soup, list) == Loop("decompose", soup, list, {}).soup

ExtractAll(soup, list) == Loop("extract", soup, list, {}).soup

UnwrapAll(soup, list) == Loop("unwrap", soup, list, {}).soup

\* A variant that only looks at the top level of the document.
StripNoiseTopLevel(soup, names) == DecomposeAll(soup, find_all(soup, 0, names, FALSE))

\* for script in soup([...]): script.decompose()
StripNoise(soup, names) == DecomposeAll(soup, find_all(soup, 0, names, TRUE))

\* soup.find_all(string=lambda text: isinstance(text, Comment)), each extracted
StripComments(soup) ==
    LET IsComment(x) == soup[x].kind = "comment"
    IN ExtractAll(soup, SelectSeq(descendants(soup, 0), IsComment))

\* A variant that leaves the tables in document order.
DocumentOrder(soup, list) == list

\* list.sort(key=depth, reverse=True): stable, deepest first.  An item goes
\* after the deeper ones and after the equally deep ones found before it.
SortByDepth(soup, list) ==
    LET Before(i) == {j \in 1..Len(list) :
                        \/ get_table_depth(soup, list[j]) > get_table_depth(soup, list[i])
                        \/ /\ get_table_depth(soup, list[j]) = get_table_depth(soup, list[i])
                           /\ j < i}
    IN <<>> \o [p \in 1..Len(list) |->
                  list[CHOOSE i \in 1..Len(list) : Cardinality(Before(i)) = p - 1]]

tables_with_depth(soup) == SortByDepth(soup, find_all(soup, 0, {"table"}, TRUE))

\* A variant that unwraps the tbody/thead children and leaves the table.
UnwrapSectionsOnly(soup, table) ==
    UnwrapAll(soup, find_all(soup, table, {"tbody", "thead"}, FALSE))

\* The body of "if is_wrapper_table(table):" : tbody/thead children, then the table.
UnwrapTable(soup, table) ==
    unwrap(UnwrapAll(soup, find_all(soup, table, {"tbody", "thead"}, FALSE)), table)

Restrict(attrs, keys) == Strict([k \in (DOMAIN attrs) \cap keys |-> attrs[k]])

RestrictAll(soup, list, keys) ==
    Strict([x \in DOMAIN soup |->
              IF x \in Range(list) THEN [soup[x] EXCEPT !.attrs = Restrict(@, keys)]
              ELSE soup[x]])

DelAll(soup, list, key) ==
    Strict([x \in DOMAIN soup |->
              IF x \in Range(list)
              THEN [soup[x] EXCEPT !.attrs = Restrict(@, (DOMAIN @) \ {key})]
              ELSE soup[x]])

\* for tag in soup.find_all("a"): if "href" in tag.attrs: del tag["href"]
StripHref(soup) == DelAll(soup, find_all(soup, 0, {"a"}, TRUE), "href")

\* A variant that clears every attribute, as simplify_html does.
ClearAttributes(soup, keep) == RestrictAll(soup, all_tags(soup), {})

\* for tag in soup.find_all(True): tag.attrs = attrs_to_keep
StripAttributes(soup, keep) == RestrictAll(soup, all_tags(soup), keep)

\* for tag in soup.find_all(): ... tag.replace_with_children()
CollapseWrappers(soup, exempt) == Loop("collapse", soup, all_tags(soup), exempt).soup

\* One pass of "for tag in soup.find_all():" inside "while True:".
PruneScan(soup, exempt) == Loop("prune", soup, all_tags(soup), exempt)

\* while True: ... if not removed: break   (simplify_html runs it in one go)
RECURSIVE PruneLoop(_, _)
PruneLoop(soup, exempt) ==
    LET st == PruneScan(soup, exempt)
    IN IF st.removed THEN PruneLoop(st.soup, exempt) ELSE st.soup

\* ------------------------------------------------------- post-processing

\* re.sub of the <?xml ...> and <!DOCTYPE ...> declarations.
clean_xml(toks) ==
    LET NotDecl(t) == t.k # "doctype" IN MergeData(SelectSeq(toks, NotDecl))

\* text.split("\n")
SplitLines(text) ==
    LET IsNewline(i) == text[i] = "\n"
        nl == SelectSeq(Indices(text), IsNewline)
    IN <<>> \o [k \in 1..(Len(nl) + 1) |->
                  SubSeq(text, IF k = 1 THEN 1 ELSE nl[k - 1] + 1,
                               IF k = Len(nl) + 1 THEN Len(text) ELSE nl[k] - 1)]

\* "\n".join(lines)
JoinLines(lines) ==
    Concat(<<>> \o [i \in 1..Len(lines) |->
                      IF i = 1 THEN lines[i] ELSE <<"\n">> \o lines[i]])

\* The lines of one run of data that survive "if line.strip()": its first
\* line continues the markup before it and its last line the markup after it.
KeptLines(text, hasLeft, hasRight) ==
    LET segs == SplitLines(text)
        idx == Indices(segs)
        Keep(i) == \/ ~IsBlank(segs[i])
                   \/ i = 1 /\ hasLeft
                   \/ i = Len(segs) /\ hasRight
        kept == SelectSeq(idx, Keep)
    IN JoinLines(<<>> \o [i \in 1..Len(kept) |-> segs[kept[i]]])

\* lines = [line for line in html.split("\n") if line.strip()]; "\n".join(lines)
remove_empty_lines(toks) ==
    LET out == <<>> \o [i \in 1..Len(toks) |->
                  IF toks[i].k = "data"
                  THEN Data(KeptLines(toks[i].s, i > 1, i < Len(toks)))
                  ELSE toks[i]]
        NonEmpty(t) == t.k # "data" \/ t.s # <<>>
    IN SelectSeq(out, NonEmpty)

\* ------------------------------------------------------------------ sizes

RECURSIVE AttrsLen(_)
AttrsLen(attrs) ==
    IF DOMAIN attrs = {} THEN 0
    ELSE LET k == CHOOSE x \in DOMAIN attrs : TRUE
         IN 1 + Len(k) + 2 + Len(attrs[k]) + 1
            + AttrsLen(Restrict(attrs, (DOMAIN attrs) \ {k}))

DoctypeLen == 15

\* len() of the text of one token.
TokLen(t) ==
    CASE t.k = "start" -> 1 + Len(t.name) + AttrsLen(t.attrs) + 1
      [] t.k = "startend" -> 1 + Len(t.name) + AttrsLen(t.attrs) + 2
      [] t.k = "end" -> 2 + Len(t.name) + 1
      [] t.k = "data" -> Len(t.s)
      [] t.k = "comment" -> 4 + Len(t.s) + 3
      [] OTHER -> DoctypeLen

\* len(html)
StrLen(toks) == SumSeq(<<>> \o [i \in 1..Len(toks) |-> TokLen(toks[i])])

\* --------------------------------------------------------------- analyzer

CountTables(soup) == Len(find_all(soup, 0, {"table"}, TRUE))

\* max(s), 0 for the empty list
MaxSeq(s) ==
    IF s = <<>> THEN 0 ELSE CHOOSE m \in Range(s) : \A x \in Range(s) : x <= m

\* analyze_cleaning(original_html, cleaned_html): the report, or the
\* ZeroDivisionError of the reduction_percent expression.  The percentage is
\* kept as the exact fraction num/den.
analyze_cleaning(original_html, cleaned_html) ==
    LET orig_soup == BeautifulSoup(original_html)
        clean_soup == BeautifulSoup(cleaned_html)
        clean_tables == find_all(clean_soup, 0, {"table"}, TRUE)
    IN IF StrLen(original_html) = 0
       THEN [raised |-> "ZeroDivisionError"]
       ELSE [raised |-> "",
             original_size |-> StrLen(original_html),
             cleaned_size |-> StrLen(cleaned_html),
             reduction_percent |->
                 [num |-> (StrLen(original_html) - StrLen(cleaned_html)) * 100,
                  den |-> StrLen(original_html)],
             original_tables |-> CountTables(orig_soup),
             cleaned_tables |-> CountTables(clean_soup),
             tables_removed |-> CountTables(orig_soup) - CountTables(clean_soup),
             max_nesting_depth |->
                 MaxSeq(<<>> \o [i \in 1..Len(clean_tables) |->
                           get_table_nesting_depth(clean_soup, clean_tables[i])])]

\* ----------------------------------------------------------------- inputs

\* The documents the cleaning functions are run on: every token sequence up
\* to MaxTokens over a wide alphabet, every token sequence up to MaxDeepTokens
\* over a narrow one (deeper nesting), tables built from a shape (rows, cells
\* per row, a tbody or none, what the cells hold), tables nested in tables,
\* documents made of the pieces of a Word export, and chains of wrappers.

MaxTokens == 2

MaxDeepTokens == 4

MaxRows == 3

MaxCells == 2

MaxNestCells == 2

MaxDepth == 2

MaxPieces == 2

Div == StartTag("div", EmptyAttrs)

X == Data(<<"x">>)

WideAlphabet ==
    { Div, EndTag("div"), X, Data(<<NBSP>>), Data(<<"\n">>), CommentTok(<<"c">>),
      StartTag("a", [href |-> "u", class |-> "k"]),
      StartTag("td", [colspan |-> "2", class |-> "k"]),
      StartTag("script", EmptyAttrs), EndTag("script"),
      StartTag("meta", [name |-> "g"]), StartTag("br", EmptyAttrs),
      StartTag("table", EmptyAttrs), StartTag("tr", EmptyAttrs), DoctypeTok }

DeepAlphabet == { Div, EndTag("div"), X, StartTag("br", EmptyAttrs) }

SeqsUpTo(alphabet, n) == UNION { [1..k -> alphabet] : k \in 0..n }

\* What the tokenizer can produce: after <script> everything up to </script>
\* is data.
Lexable(toks) ==
    \A i \in 1..Len(toks) :
        (toks[i].k = "start" /\ toks[i].name \in CDATA_CONTENT_ELEMENTS) =>
            \/ i = Len(toks)
            \/ toks[i + 1] = EndTag(toks[i].name)
            \/ /\ toks[i + 1].k = "data"
               /\ i + 1 = Len(toks) \/ toks[i + 2] = EndTag(toks[i].name)

Cell(name, inner) == <<StartTag(name, EmptyAttrs)>> \o inner \o <<EndTag(name)>>

Row(cells) == <<StartTag("tr", EmptyAttrs)>> \o Concat(cells) \o <<EndTag("tr")>>

Table(tbody, rows) ==
    <<StartTag("table", EmptyAttrs)>>
    \o (IF tbody THEN <<StartTag("tbody", EmptyAttrs)>> ELSE <<>>)
    \o Concat(rows)
    \o (IF tbody THEN <<EndTag("tbody")>> ELSE <<>>)
    \o <<EndTag("table")>>

\* Cell texts that the data patterns of contains_tabular_data_pattern look
\* for, and texts that they do not.
CellTexts ==
    { <<>>, <<Data(<<"x">>)>>, <<Data(<<"P", "M">>)>>,
      <<Data(<<"1", ".", "5", " ", "1", "2", "3", " ", "2", ",", "5">>)>>,
      <<Data(<<"1", "/", "2", "/", "3", "4">>)>>, <<Data(<<"1", ":", "2", "3", ":", "4", "5">>)>> }

\* r rows of c cells with the same text, the first row of th cells or not.
Grid(tbody, header, r, c, text) ==
    Table(tbody, [i \in 1..r |->
                    Row([j \in 1..c |-> Cell(IF header /\ i = 1 THEN "th" ELSE "td", text)])])

GridTables ==
    { Grid(b, h, r, c, t) :
        b \in BOOLEAN, h \in BOOLEAN, r \in 0..MaxRows, c \in 0..MaxCells, t \in CellTexts }

\* The tables put inside the cells of another table: a layout table of one
\* cell, a row with a header cell, and two rows of two cells with and without
\* a tbody.
InnerTables ==
    { Grid(FALSE, FALSE, 1, 1, <<X>>), Grid(FALSE, TRUE, 1, 2, <<X>>),
      Grid(FALSE, FALSE, 2, 2, <<X>>), Grid(TRUE, FALSE, 2, 2, <<X>>) }

NestCells == { Cell("td", <<>>), Cell("td", <<X>>) } \cup { Cell("td", t) : t \in InnerTables }

\* One row of up to MaxNestCells cells, or a row of one cell for each cell.
NestedTables ==
    { Table(b, <<Row(c)>>) : b \in BOOLEAN, c \in SeqsUpTo(NestCells, MaxNestCells) }
    \cup { Table(b, [i \in 1..Len(c) |-> Row(<<c[i]>>)]) :
             b \in BOOLEAN, c \in SeqsUpTo(NestCells, MaxNestCells) }

\* A row of two cells followed by cells that are children of the table itself.
DirectCellTables ==
    { <<StartTag("table", EmptyAttrs)>> \o Row(<<Cell("td", <<X>>), Cell("td", <<X>>)>>)
        \o Cell("td", t) \o rest \o <<EndTag("table")>> :
        t \in InnerTables, rest \in {<<>>, Cell("td", <<X>>)} }

\* A table wrapped d times in a table of one cell, in a table of one cell
\* inside a tbody, or in a table of a text cell and a cell.
Wrappings(t) ==
    { Table(FALSE, <<Row(<<Cell("td", t)>>)>>), Table(TRUE, <<Row(<<Cell("td", t)>>)>>),
      Table(FALSE, <<Row(<<Cell("td", <<X>>), Cell("td", t)>>)>>) }

RECURSIVE ChainTables(_)
ChainTables(d) ==
    IF d = 0 THEN InnerTables ELSE UNION { Wrappings(t) : t \in ChainTables(d - 1) }

\* What a Word export is made of: noise, comments, empty paragraphs, links,
\* layout tables and text.
WordPieces ==
    { Cell("script", <<X>>), Cell("style", <<X>>),
      <<StartTag("meta", [name |-> "g"])>>, <<StartTag("link", [href |-> "u"])>>,
      <<CommentTok(<<"c">>)>>, Cell("p", <<Data(<<NBSP>>)>>), <<X>>,
      Cell("p", <<CommentTok(<<"c">>), X>>),
      <<StartTag("a", [href |-> "u", class |-> "k"]), X, EndTag("a")>>,
      Table(FALSE, <<<<StartTag("tr", EmptyAttrs),
                       StartTag("td", [colspan |-> "2", class |-> "k"]), X,
                       EndTag("td"), EndTag("tr")>>>>),
      Table(FALSE, <<Row(<<Cell("td", <<>>)>>)>>) }

WordDocs == { Cell("div", Concat(c)) : c \in [1..MaxPieces -> WordPieces] }

\* n nested single-child wrappers around one text node.
MaxChain == 5

RECURSIVE Chain(_)
Chain(n) == IF n = 0 THEN <<X>> ELSE Cell("div", Chain(n - 1))

WrapperChains == { Chain(n) : n \in 1..MaxChain }

Inputs ==
    { d \in SeqsUpTo(WideAlphabet, MaxTokens) : Lexable(d) }
    \cup SeqsUpTo(DeepAlphabet, MaxDeepTokens)
    \cup GridTables \cup NestedTables \cup DirectCellTables
    \cup UNION { ChainTables(d) : d \in 1..MaxDepth }
    \cup WordDocs
    \cup WrapperChains

\* -------------------------------------------------- the conversion cache

Quotes == {"\"", "'"}

\* str.strip(chars)
RECURSIVE lstrip(_, _)
lstrip(text, chars) ==
    IF text # <<>> /\ Head(text) \in chars THEN lstrip(Tail(text), chars) ELSE text

RECURSIVE rstrip(_, _)
rstrip(text, chars) ==
    IF text # <<>> /\ text[Len(text)] \in chars
    THEN rstrip(SubSeq(text, 1, Len(text) - 1), chars)
    ELSE text

strip(text, chars) == rstrip(lstrip(text, chars), chars)

\* docling_mcp.docling_cache.get_cache_key: a digest of the source string.
get_cache_key(source) == [digest_of |-> source]

\* What converter.convert(source) can do: raise, or return a result whose
\* status may be missing, may carry is_error, may carry error or neither, and
\* whose errors list may be missing, empty or not.
ConversionResults ==
    [raises : {FALSE}, status : {"missing", "is_error", "error", "neither"},
     flag : BOOLEAN, errors : {"missing", "empty", "some"}]

ConverterOutcomes ==
    {[raises |-> TRUE, status |-> "missing", flag |-> FALSE, errors |-> "missing"]}
    \cup ConversionResults

\* Lines 153-165.
has_error(res) ==
    LET from_status ==
            CASE res.status = "is_error" -> res.flag
              [] res.status = "error" -> res.flag
              [] OTHER -> FALSE
    IN IF res.errors = "some" THEN TRUE ELSE from_status

\* result.document
Document(source) == [origin |-> source, texts |-> <<>>]

\* document.add_text(label=TEXT, text=f"source: {source}", content_layer=FURNITURE)
SourceItem(source) == [label |-> "text", text |-> <<"source: ">> \o source,
                       content_layer |-> "furniture"]

\* A variant that stores nothing.
StoreNothing(cache, key, value) == cache

\* cache[key] = value
StoreDocument(cache, key, value) ==
    [k \in (DOMAIN cache) \cup {key} |-> IF k = key THEN value ELSE cache[k]]

MaxCalls == 3

RawSources ==
    { <<"a">>, <<"'", "a", "'">>, <<"\"", "a">>, <<"b">>, <<"b", "\"">>, <<"a", "'", "b">> }

EmptyCache == [k \in {} |-> 0]

NoOutput == [kind |-> "none"]

ConvertDocumentOutput(from_cache, document_key) ==
    [kind |-> "ConvertDocumentOutput", from_cache |-> from_cache,
     document_key |-> document_key]

McpError == [kind |-> "McpError"]

VARIABLES
    local_document_cache,    \* docling_mcp.shared.local_document_cache
    local_stack_cache,       \* docling_mcp.shared.local_stack_cache
    at,                      \* the position in convert_document_into_docling_document
    source,                  \* its argument, quotes stripped
    cache_key,               \* get_cache_key(source)
    conversion,              \* what converter.convert did in this call
    output,                  \* what the call returned or raised
    calls,                   \* the calls made so far
    converter_calls,         \* the calls of converter.convert so far
    before                   \* the caches and converter_calls when the call began

conversion_vars == <<local_document_cache, local_stack_cache, at, source, cache_key,
                     conversion, output, calls, converter_calls, before>>

InitConversion ==
    /\ local_document_cache = EmptyCache
    /\ local_stack_cache = EmptyCache
    /\ at = "idle"
    /\ source = <<>>
    /\ cache_key = get_cache_key(<<>>)
    /\ conversion = [raises |-> FALSE, status |-> "missing", flag |-> FALSE,
                     errors |-> "missing"]
    /\ output = NoOutput
    /\ calls = 0
    /\ converter_calls = 0
    /\ before = [documents |-> EmptyCache, stacks |-> EmptyCache, converter_calls |-> 0]

\* ---------------------------------------------------------- state machine

VARIABLES
    html,                    \* html_content of the call in progress
    keep_attr,               \* its keep_attr argument
    fn,                      \* the entry point running: clean_word_html or clean_html
    pc,                      \* the position in it
    soup,                    \* the tree being rewritten
    parsed,                  \* the tree as BeautifulSoup() returned it
    tables,                  \* step 3: the tables not yet visited, deepest first
    wrapper_tables_removed,  \* step 3's counter
    removed,                 \* the empty-tag loop's flag after its last scan
    result,                  \* the value returned by the call
    call,                    \* 1 for the first cleaning, 2 for the cleaning of its output
    first,                   \* the value returned by the first cleaning
    report                   \* analyze_cleaning's return value

cleaner_vars == <<html, keep_attr, fn, pc, soup, parsed, tables, wrapper_tables_removed,
                  removed, result, call, first, report>>

vars == <<cleaner_vars, conversion_vars>>

EmptySoup == [x \in {0} |-> DocNode]

NoResult == [html |-> <<>>, wrapper_tables_removed |-> None]

NoReport == [raised |-> "not called"]

InitWith(inputs) ==
    /\ html \in inputs
    /\ keep_attr \in BOOLEAN
    /\ fn = "none"
    /\ pc = "idle"
    /\ soup = EmptySoup
    /\ parsed = EmptySoup
    /\ tables = <<>>
    /\ wrapper_tables_removed = 0
    /\ removed = FALSE
    /\ result = NoResult
    /\ call = 0
    /\ first = NoResult
    /\ report = NoReport
    /\ InitConversion

Init == InitWith(Inputs)

\* clean_word_html(html_content, keep_attr): line 166.  The second call cleans
\* the string the first call returned.
CallCleanWordHtml ==
    /\ \/ pc = "idle"
       \/ pc = "returned" /\ fn = "clean_word_html" /\ call = 1
    /\ LET html_content == IF pc = "idle" THEN html ELSE result.html
       IN /\ html' = html_content
          /\ soup' = BeautifulSoup(html_content)
          /\ parsed' = BeautifulSoup(html_content)
    /\ fn' = "clean_word_html"
    /\ call' = call + 1
    /\ first' = result
    /\ pc' = "step1"
    /\ result' = NoResult
    /\ tables' = <<>>
    /\ wrapper_tables_removed' = 0
    /\ removed' = FALSE
    /\ UNCHANGED conversion_vars
    /\ UNCHANGED <<keep_attr, report>>

Step1 ==
    /\ pc = "step1"
    /\ soup' = StripNoise(soup, WordNoiseTags)
    /\ pc' = "step2"
    /\ UNCHANGED conversion_vars
    /\ UNCHANGED <<html, keep_attr, fn, parsed, tables, wrapper_tables_removed,
                   removed, result, call, first, report>>

Step2 ==
    /\ pc = "step2"
    /\ soup' = StripComments(soup)
    /\ pc' = "step3"
    /\ UNCHANGED conversion_vars
    /\ UNCHANGED <<html, keep_attr, fn, parsed, tables, wrapper_tables_removed,
                   removed, result, call, first, report>>

\* Lines 179-183: the tables are collected and sorted.
Step3Collect ==
    /\ pc = "step3"
    /\ tables' = tables_with_depth(soup)
    /\ wrapper_tables_removed' = 0
    /\ pc' = "step3_loop"
    /\ UNCHANGED conversion_vars
    /\ UNCHANGED <<html, keep_attr, fn, soup, parsed, removed, result, call, first, report>>

\* Lines 184-192: one iteration of "for table, depth in tables_with_depth".
Step3Visit ==
    /\ pc = "step3_loop"
    /\ tables # <<>>
    /\ LET table == Head(tables)
       IN IF is_wrapper_table(soup, table)
          THEN /\ soup' = UnwrapTable(soup, table)
               /\ wrapper_tables_removed' = wrapper_tables_removed + 1
          ELSE UNCHANGED <<soup, wrapper_tables_removed>>
    /\ tables' = Tail(tables)
    /\ UNCHANGED conversion_vars
    /\ UNCHANGED <<html, keep_attr, fn, pc, parsed, removed, result, call, first, report>>

Step4 ==
    /\ pc = "step3_loop"
    /\ tables = <<>>
    /\ soup' = StripHref(soup)
    /\ pc' = "step5"
    /\ UNCHANGED conversion_vars
    /\ UNCHANGED <<html, keep_attr, fn, parsed, tables, wrapper_tables_removed,
                   removed, result, call, first, report>>

Step5 ==
    /\ pc = "step5"
    /\ soup' = IF keep_attr THEN soup ELSE StripAttributes(soup, {"colspan", "rowspan"})
    /\ pc' = "step6"
    /\ UNCHANGED conversion_vars
    /\ UNCHANGED <<html, keep_attr, fn, parsed, tables, wrapper_tables_removed,
                   removed, result, call, first, report>>

Step6 ==
    /\ pc = "step6"
    /\ soup' = CollapseWrappers(soup, TableStructure)
    /\ pc' = "step7"
    /\ UNCHANGED conversion_vars
    /\ UNCHANGED <<html, keep_attr, fn, parsed, tables, wrapper_tables_removed,
                   removed, result, call, first, report>>

\* Lines 226-238: one pass of the while loop.
Step7Scan ==
    /\ pc = "step7"
    /\ LET st == PruneScan(soup, TableStructure)
       IN /\ soup' = st.soup
          /\ removed' = st.removed
          /\ pc' = IF st.removed THEN "step7" ELSE "step8"
    /\ UNCHANGED conversion_vars
    /\ UNCHANGED <<html, keep_attr, fn, parsed, tables, wrapper_tables_removed,
                   result, call, first, report>>

\* Lines 240-250: steps 8 and 9 and the return.
Step8Return ==
    /\ pc = "step8"
    /\ result' = [html |-> remove_empty_lines(clean_xml(str(soup))),
                  wrapper_tables_removed |-> wrapper_tables_removed]
    /\ pc' = "returned"
    /\ UNCHANGED conversion_vars
    /\ UNCHANGED <<html, keep_attr, fn, soup, parsed, tables, wrapper_tables_removed,
                   removed, call, first, report>>

\* analyze_cleaning(html_content, cleaned) on what the call returned.
AnalyzeCleaning ==
    /\ pc = "returned"
    /\ fn = "clean_word_html"
    /\ report' = analyze_cleaning(html, result.html)
    /\ pc' = "analyzed"
    /\ UNCHANGED conversion_vars
    /\ UNCHANGED <<html, keep_attr, fn, soup, parsed, tables, wrapper_tables_removed,
                   removed, result, call, first>>

\* clean_html(html_content, keep_attr): htmlrag_cleaner.py line 98.
CallCleanHtml ==
    /\ pc = "idle"
    /\ soup' = BeautifulSoup(html)
    /\ parsed' = BeautifulSoup(html)
    /\ fn' = "clean_html"
    /\ call' = 1
    /\ pc' = "rag_noise"
    /\ UNCHANGED conversion_vars
    /\ UNCHANGED <<html, keep_attr, tables, wrapper_tables_removed, removed, result,
                   first, report>>

\* simplify_html lines 34-41: scripts and styles, then the attributes.
RagNoise ==
    /\ pc = "rag_noise"
    /\ soup' = LET s1 == StripNoise(soup, RagNoiseTags)
               IN IF keep_attr THEN s1 ELSE StripAttributes(s1, {})
    /\ pc' = "rag_prune"
    /\ UNCHANGED conversion_vars
    /\ UNCHANGED <<html, keep_attr, fn, parsed, tables, wrapper_tables_removed,
                   removed, result, call, first, report>>

\* simplify_html lines 44-51: one pass of the while loop.
RagPruneScan ==
    /\ pc = "rag_prune"
    /\ LET st == PruneScan(soup, {})
       IN /\ soup' = st.soup
          /\ removed' = st.removed
          /\ pc' = IF st.removed THEN "rag_prune" ELSE "rag_rest"
    /\ UNCHANGED conversion_vars
    /\ UNCHANGED <<html, keep_attr, fn, parsed, tables, wrapper_tables_removed,
                   result, call, first, report>>

\* simplify_html lines 53-70: href, comments, redundant wrappers.
RagRest ==
    /\ pc = "rag_rest"
    /\ soup' = CollapseWrappers(StripComments(StripHref(soup)), {})
    /\ pc' = "rag_str"
    /\ UNCHANGED conversion_vars
    /\ UNCHANGED <<html, keep_attr, fn, parsed, tables, wrapper_tables_removed,
                   removed, result, call, first, report>>

\* simplify_html lines 73-76 and clean_html lines 100-101.
RagReturn ==
    /\ pc = "rag_str"
    /\ result' = [html |-> clean_xml(remove_empty_lines(str(soup))),
                  wrapper_tables_removed |-> None]
    /\ pc' = "returned"
    /\ UNCHANGED conversion_vars
    /\ UNCHANGED <<html, keep_attr, fn, soup, parsed, tables, wrapper_tables_removed,
                   removed, call, first, report>>

Next ==
    \/ CallCleanWordHtml
    \/ Step1
    \/ Step2
    \/ Step3Collect
    \/ Step3Visit
    \/ Step4
    \/ Step5
    \/ Step6
    \/ Step7Scan
    \/ Step8Return
    \/ AnalyzeCleaning
    \/ CallCleanHtml
    \/ RagNoise
    \/ RagPruneScan
    \/ RagRest
    \/ RagReturn

Spec == Init /\ [][Next]_vars

\* ------------------------------- convert_document_into_docling_document

\* Lines 131-139: the call, the quotes stripped, the key computed.
ConvertCall ==
    /\ at \in {"idle", "done"}
    /\ calls < MaxCalls
    /\ \E raw \in RawSources :
          /\ source' = strip(raw, Quotes)
          /\ cache_key' = get_cache_key(strip(raw, Quotes))
    /\ calls' = calls + 1
    /\ output' = NoOutput
    /\ before' = [documents |-> local_document_cache, stacks |-> local_stack_cache,
                  converter_calls |-> converter_calls]
    /\ at' = "lookup"
    /\ UNCHANGED <<local_document_cache, local_stack_cache, conversion, converter_calls>>
    /\ UNCHANGED cleaner_vars

\* Lines 141-143.
ConvertCacheHit ==
    /\ at = "lookup"
    /\ cache_key \in DOMAIN local_document_cache
    /\ output' = ConvertDocumentOutput(TRUE, cache_key)
    /\ at' = "done"
    /\ UNCHANGED <<local_document_cache, local_stack_cache, source, cache_key,
                   conversion, calls, converter_calls, before>>
    /\ UNCHANGED cleaner_vars

\* Lines 145-150: converter.convert(source) returns or raises.
ConvertConvert ==
    /\ at = "lookup"
    /\ cache_key \notin DOMAIN local_document_cache
    /\ \E outcome \in ConverterOutcomes :
          /\ conversion' = outcome
          /\ at' = IF outcome.raises THEN "except" ELSE "check"
    /\ converter_calls' = converter_calls + 1
    /\ UNCHANGED <<local_document_cache, local_stack_cache, source, cache_key,
                   output, calls, before>>
    /\ UNCHANGED cleaner_vars

\* Lines 152-169: has_error, and the raise when it is set.
ConvertCheck ==
    /\ at = "check"
    /\ at' = IF has_error(conversion) THEN "except" ELSE "store"
    /\ UNCHANGED <<local_document_cache, local_stack_cache, source, cache_key,
                   conversion, output, calls, converter_calls, before>>
    /\ UNCHANGED cleaner_vars

\* Line 171.
ConvertStoreDocument ==
    /\ at = "store"
    /\ local_document_cache' = StoreDocument(local_document_cache, cache_key, Document(source))
    /\ at' = "add_text"
    /\ UNCHANGED <<local_stack_cache, source, cache_key, conversion, output, calls,
                   converter_calls, before>>
    /\ UNCHANGED cleaner_vars

\* Lines 173-179: the item is added to the document the cache holds, and the
\* stack of the key is started with it.
ConvertStoreStack ==
    /\ at = "add_text"
    /\ local_document_cache' =
          [local_document_cache EXCEPT ![cache_key].texts = Append(@, SourceItem(source))]
    /\ local_stack_cache' = StoreDocument(local_stack_cache, cache_key, <<SourceItem(source)>>)
    /\ at' = "return"
    /\ UNCHANGED <<source, cache_key, conversion, output, calls, converter_calls, before>>
    /\ UNCHANGED cleaner_vars

\* Lines 181-187.
ConvertReturn ==
    /\ at = "return"
    /\ output' = ConvertDocumentOutput(FALSE, cache_key)
    /\ at' = "done"
    /\ UNCHANGED <<local_document_cache, local_stack_cache, source, cache_key,
                   conversion, calls, converter_calls, before>>
    /\ UNCHANGED cleaner_vars

\* Lines 189-193: whatever was raised leaves as an McpError.
ConvertExcept ==
    /\ at = "except"
    /\ output' = McpError
    /\ at' = "done"
    /\ UNCHANGED <<local_document_cache, local_stack_cache, source, cache_key,
                   conversion, calls, converter_calls, before>>
    /\ UNCHANGED cleaner_vars

InitCache == InitWith({<<>>}) /\ keep_attr = TRUE

NextCache ==
    \/ ConvertCall
    \/ ConvertCacheHit
    \/ ConvertConvert
    \/ ConvertCheck
    \/ ConvertStoreDocument
    \/ ConvertStoreStack
    \/ ConvertReturn
    \/ ConvertExcept

SpecCache == InitCache /\ [][NextCache]_vars

\* The positions that have a next step: everything but the end of clean_html
\* and of analyze_cleaning.
CanStep == pc # "analyzed" /\ ~(pc = "returned" /\ fn = "clean_html")

\* The cleaners as sequential programs: a call that can take a step takes it.
\* This is weak fairness of Next, with CanStep for ENABLED <<Next>>_vars and,
\* every step that changes vars being a step of Next, <<TRUE>>_vars for
\* <<Next>>_vars.
Progress == []<>(~CanStep) \/ []<><<TRUE>>_vars

SpecLive == Init /\ [][Next]_vars /\ Progress

\* ----------------------------------------------------------------- claims

Returned(f, c) == pc = "returned" /\ fn = f /\ call = c

AttachedTags(sp) == Range(all_tags(sp))

\* The visible text of a tree, the content of script/style/meta/link elements
\* and of comments left out.
RECURSIVE ContentText(_, _)
ContentText(sp, n) ==
    LET kids == sp[n].contents
    IN Concat(<<>> \o [i \in 1..Len(kids) |->
                CASE sp[kids[i]].kind = "text" -> sp[kids[i]].s
                  [] sp[kids[i]].kind = "tag" /\ sp[kids[i]].name \notin WordNoiseTags ->
                       ContentText(sp, kids[i])
                  [] OTHER -> <<>>])

InputText == ContentText(parsed, 0)

OutputText == get_text(BeautifulSoup(result.html), 0)

\* An element that step 6 would collapse.
IsRedundantWrapper(sp, n) ==
    LET NotStr(x) == IsTag(sp, x)
        children == SelectSeq(sp[n].contents, NotStr)
    IN /\ sp[n].name \notin TableStructure
       /\ Len(children) = 1
       /\ concat_text(get_text(sp, children[1])) = concat_text(get_text(sp, n))

\* C1: cleaning the output of clean_word_html again returns the same string.
C1_Idempotent ==
    Returned("clean_word_html", 2) => result.html = first.html

\* C2 as stated: with newlines, tabs and spaces removed, the visible text of
\* the output is the visible text of the input less noise and comments.
C2_TextPreservedModuloSpaces ==
    Returned("clean_word_html", 1) => concat_text(OutputText) = concat_text(InputText)

\* C2 as amended: the same with every white-space character removed (what
\* str.strip() treats as white space, the no-break space included).
C2_TextPreservedModuloWhitespace ==
    Returned("clean_word_html", 1) =>
        Without(OutputText, PyWhitespace) = Without(InputText, PyWhitespace)

\* C2's case: a wrapper table was unwrapped, an element was pruned, white
\* space was lost and the remaining text is not empty.
C2_Witness ==
    /\ Returned("clean_word_html", 1)
    /\ result.wrapper_tables_removed > 0
    /\ \E n \in AttachedTags(parsed) : soup[n].decomposed /\ parsed[n].name \notin WordNoiseTags
    /\ Without(OutputText, PyWhitespace) # <<>>
    /\ Len(OutputText) < Len(InputText)

\* C3: analyze_cleaning on an empty original returns a report, not an error.
C3_EmptyOriginalReported ==
    (pc = "analyzed" /\ StrLen(html) = 0) => report.raised = ""

\* C4: the tree that is serialized holds no noise element and no comment:
\* script/style/meta/link for clean_word_html, script/style for clean_html.
C4_NoNoiseLeft ==
    LET nodes == Range(descendants(soup, 0))
    IN /\ (fn = "clean_word_html" /\ pc \in {"step8", "returned"}) =>
              \A n \in nodes : /\ soup[n].kind # "comment"
                               /\ ~(IsTag(soup, n) /\ soup[n].name \in WordNoiseTags)
       /\ (fn = "clean_html" /\ pc \in {"rag_str", "returned"}) =>
              \A n \in nodes : /\ soup[n].kind # "comment"
                               /\ ~(IsTag(soup, n) /\ soup[n].name \in RagNoiseTags)

\* C4's case: the input had a script with text inside an element that is
\* kept, and a comment; the cleaning has returned.
C4_Witness ==
    /\ Returned("clean_word_html", 1)
    /\ \E n \in Ids(parsed) : parsed[n].kind = "comment"
    /\ \E n \in AttachedTags(parsed) :
          /\ parsed[n].name = "script" /\ parsed[n].contents # <<>>
          /\ ParentOf(parsed, n) # 0
    /\ result.html # <<>>

ExpectedAttrs(n) ==
    IF keep_attr
    THEN IF parsed[n].name = "a"
         THEN Restrict(parsed[n].attrs, (DOMAIN parsed[n].attrs) \ {"href"})
         ELSE parsed[n].attrs
    ELSE Restrict(parsed[n].attrs, {"colspan", "rowspan"})

\* C5: every element of the output has its input attributes, less href on <a>
\* when keep_attr, and only colspan/rowspan when not keep_attr.
C5_Attributes ==
    (fn = "clean_word_html" /\ pc \in {"step8", "returned"}) =>
        \A n \in AttachedTags(soup) : soup[n].attrs = ExpectedAttrs(n)

\* C5's case: keep_attr is false and a cell with colspan and another
\* attribute is in the output, next to an <a> that had an href.
C5_Witness ==
    /\ Returned("clean_word_html", 1)
    /\ ~keep_attr
    /\ \E n \in AttachedTags(soup) :
          /\ parsed[n].name = "td"
          /\ DOMAIN parsed[n].attrs = {"colspan", "class"}
    /\ \E n \in AttachedTags(soup) :
          parsed[n].name = "a" /\ "href" \in DOMAIN parsed[n].attrs

HasNoiseOrWrapper(sp) ==
    \E n \in Range(descendants(sp, 0)) :
        \/ sp[n].kind = "comment"
        \/ IsTag(sp, n) /\ sp[n].name \in WordNoiseTags
        \/ IsTag(sp, n) /\ IsRedundantWrapper(sp, n)

InPipeline == pc \notin {"idle", "returned", "analyzed"}

AttachedCount(sp) == Len(descendants(sp, 0))

\* C6: a non-empty input with a noise tag, a comment or a redundant wrapper
\* is cleaned to a string that is no longer than it, and no pass of the
\* pipeline adds a node to the tree.
C6_SizeMonotone ==
    /\ []((pc = "analyzed" /\ call = 1 /\ html # <<>> /\ HasNoiseOrWrapper(parsed)) =>
             report.cleaned_size <= report.original_size)
    /\ [][InPipeline => AttachedCount(soup') <= AttachedCount(soup)]_vars

CachesUnchanged ==
    /\ local_document_cache = before.documents
    /\ local_stack_cache = before.stacks

\* C7: a call whose key is cached returns from_cache=True with the key, does
\* not call the converter and leaves the caches alone; a call whose key is
\* not cached and whose conversion succeeds returns from_cache=False with the
\* key in both caches; a call whose conversion raises or reports an error
\* raises McpError and leaves the caches alone; no key ever leaves the cache,
\* so a later call with the same source is a hit.
C7_CacheProtocol ==
    /\ [](at = "done" =>
            IF cache_key \in DOMAIN before.documents
            THEN /\ output = ConvertDocumentOutput(TRUE, cache_key)
                 /\ converter_calls = before.converter_calls
                 /\ CachesUnchanged
            ELSE IF conversion.raises \/ has_error(conversion)
                 THEN output = McpError /\ CachesUnchanged
                 ELSE /\ output = ConvertDocumentOutput(FALSE, cache_key)
                      /\ converter_calls = before.converter_calls + 1
                      /\ cache_key \in DOMAIN local_document_cache
                      /\ cache_key \in DOMAIN local_stack_cache)
    /\ [][DOMAIN local_document_cache \subseteq DOMAIN local_document_cache']_vars

\* C7's case: after a conversion that failed and one that succeeded, a call
\* with a quoted spelling of a converted source has returned from the cache.
C7_Witness ==
    /\ at = "done"
    /\ calls = MaxCalls
    /\ output = ConvertDocumentOutput(TRUE, cache_key)
    /\ converter_calls > Cardinality(DOMAIN local_document_cache)
    /\ local_document_cache[cache_key].texts = <<SourceItem(source)>>

OwnRows(sp, table) ==
    LET tbodies == find_all(sp, table, {"tbody"}, FALSE)
    IN IF tbodies # <<>> THEN find_all(sp, tbodies[1], {"tr"}, FALSE)
       ELSE find_all(sp, table, {"tr"}, FALSE)

CellsOfRows(sp, rows) ==
    Concat(<<>> \o [i \in 1..Len(rows) |-> row_cells(sp, rows[i])])

Visiting == pc = "step3_loop" /\ tables # <<>>

\* C8: no pass of the empty-tag loop detaches a table-structure element.
C8_TableStructureKept ==
    [][pc = "step7" =>
          \A n \in AttachedTags(soup) :
              soup[n].name \in TableStructure => n \in AttachedTags(soup')]_vars

\* C9: a table visited by step 3 whose own single row has at most one cell is
\* classified as a wrapper.
C9_SingleCellIsWrapper ==
    (/\ Visiting
     /\ Len(OwnRows(soup, Head(tables))) = 1
     /\ Len(row_cells(soup, OwnRows(soup, Head(tables))[1])) <= 1)
        => is_wrapper_table(soup, Head(tables))

\* C10: a table visited by step 3 with at least one cell, every cell of whose
\* rows holds a nested table, is classified as a wrapper.
C10_AllCellsNestedIsWrapper ==
    LET cells == CellsOfRows(soup, OwnRows(soup, Head(tables)))
    IN (/\ Visiting
        /\ cells # <<>>
        /\ \A i \in 1..Len(cells) : find(soup, cells[i], {"table"}) # None)
           => is_wrapper_table(soup, Head(tables))

\* The tree step 3 collected its tables from: the parsed tree less noise
\* elements and comments.
TreeAtCollect == StripComments(StripNoise(parsed, WordNoiseTags))

NestedIn(sp, inner, outer) == inner \in Range(descendants(sp, outer))

\* C11: step 3 visits the tables deepest first (the depths of the visiting
\* list never increase), so no table still to be visited is nested in the one
\* being visited, and the table visited is unwrapped exactly when
\* is_wrapper_table holds of it on the tree as it is then.
C11_DeepestFirst ==
    /\ [][pc = "step3" =>
            /\ Range(tables') = Range(find_all(soup, 0, {"table"}, TRUE))
            /\ Len(tables') = Len(find_all(soup, 0, {"table"}, TRUE))
            /\ \A i, j \in 1..Len(tables') :
                  i < j => get_table_depth(soup, tables'[i]) >= get_table_depth(soup, tables'[j])]_vars
    /\ [](Visiting =>
            \A i \in 2..Len(tables) : ~NestedIn(TreeAtCollect, tables[i], Head(tables)))
    /\ [][Visiting =>
            IF is_wrapper_table(soup, Head(tables))
            THEN /\ ~Attached(soup', Head(tables))
                 /\ wrapper_tables_removed' = wrapper_tables_removed + 1
            ELSE /\ soup' = soup
                 /\ wrapper_tables_removed' = wrapper_tables_removed]_vars

\* C11's case: an outer table is being visited after a table nested in it was
\* unwrapped, and its classification on the tree as it is now differs from
\* its classification on the tree the tables were collected from.
C11_Witness ==
    /\ Visiting
    /\ wrapper_tables_removed > 0
    /\ \E t \in Range(find_all(TreeAtCollect, Head(tables), {"table"}, TRUE)) :
          ~Attached(soup, t)
    /\ is_wrapper_table(soup, Head(tables)) # is_wrapper_table(TreeAtCollect, Head(tables))

NoRedundantWrapper(sp) == \A n \in AttachedTags(sp) : ~IsRedundantWrapper(sp, n)

\* C12: the tree step 6 of clean_word_html leaves (and the tree the wrapper
\* loop of simplify_html leaves) holds no element, table structure apart, with
\* exactly one element child of the same text, so a further scan would
\* collapse nothing; a chain of nested wrappers around one text is left as at
\* most one element.
C12_CollapseFixedPoint ==
    [][(pc = "step6" \/ pc = "rag_rest") =>
          (/\ NoRedundantWrapper(soup')
           /\ CollapseWrappers(soup', IF pc = "step6" THEN TableStructure ELSE {}) = soup'
           /\ (html \in WrapperChains => Cardinality(AttachedTags(soup')) <= 1))]_vars

\* C12's case: step 6 has run on a chain of MaxChain wrappers and left one
\* element around the text.
C12_Witness ==
    /\ fn = "clean_word_html" /\ call = 1 /\ pc = "step7" /\ ~removed
    /\ html = Chain(MaxChain)
    /\ Cardinality(AttachedTags(parsed)) = MaxChain
    /\ Cardinality(AttachedTags(soup)) = 1
    /\ get_text(soup, 0) = <<"x">>

Pruning == pc = "step7" \/ pc = "rag_prune"

\* The tags the empty-tag loop passes over: table structure in
\* clean_word_html, none in simplify_html.
PruneExempt == IF fn = "clean_word_html" THEN TableStructure ELSE {}

NoEmptyElement(sp, exempt) ==
    \A n \in AttachedTags(sp) : sp[n].name \notin exempt => ~IsBlank(get_text(sp, n))

\* C13: a scan of the empty-tag loop that reports a removal leaves strictly
\* fewer elements in the tree and is followed by another scan; a scan that
\* reports none changes nothing, ends the loop and leaves no element, table
\* structure apart, whose text is empty once trimmed; and the loop ends.
C13_PruneTerminates ==
    /\ [][Pruning =>
            IF removed'
            THEN /\ Cardinality(AttachedTags(soup')) < Cardinality(AttachedTags(soup))
                 /\ pc' = pc
            ELSE /\ soup' = soup
                 /\ ~Pruning'
                 /\ NoEmptyElement(soup', PruneExempt)]_vars
    /\ (pc = "step7" ~> pc = "step8")
    /\ (pc = "rag_prune" ~> pc = "rag_rest")

\* C13's case: the loop has ended after a scan that removed an element
\* together with an element inside it, and elements are left in the tree.
C13_Witness ==
    /\ pc = "step8" \/ pc = "rag_rest"
    /\ ~removed
    /\ Cardinality(AttachedTags(parsed)) - Cardinality(AttachedTags(soup)) >= 2
    /\ \E n \in AttachedTags(parsed) :
          /\ soup[n].decomposed
          /\ parsed[n].name \notin WordNoiseTags
          /\ \E m \in Range(parsed[n].contents) : IsTag(parsed, m)
    /\ AttachedTags(soup) # {}

\* C14: the tree clean_word_html serializes, and so its output, holds no
\* element, table structure apart, with exactly one element child of the same
\* text.
C14_NoRedundantWrapperInOutput ==
    Returned("clean_word_html", 1) =>
        /\ NoRedundantWrapper(soup)
        /\ NoRedundantWrapper(BeautifulSoup(result.html))

Step3Ended == fn = "clean_word_html" /\ pc = "step3_loop" /\ tables = <<>>

TablesIn(sp) == find_all(sp, 0, {"table"}, TRUE)

\* C15: when the loop of step 3 has ended, is_wrapper_table is false of every
\* table in the tree, and wrapper_tables_removed is the number of tables
\* step 3 started with less the number it leaves; the later steps leave the
\* counter alone and it is the value returned.
C15_NoWrapperSurvives ==
    /\ [](Step3Ended =>
            /\ \A n \in Range(TablesIn(soup)) : ~is_wrapper_table(soup, n)
            /\ wrapper_tables_removed = Len(TablesIn(TreeAtCollect)) - Len(TablesIn(soup)))
    /\ [][(Step3Ended \/ pc = "step5" \/ pc = "step6" \/ pc = "step7") =>
            wrapper_tables_removed' = wrapper_tables_removed]_vars
    /\ [][pc = "step8" => result'.wrapper_tables_removed = wrapper_tables_removed]_vars

\* C15's case: step 3 has ended with a table kept as a data table after a
\* wrapper table nested in it was unwrapped.
C15_Witness ==
    /\ Step3Ended
    /\ wrapper_tables_removed >= 1
    /\ \E n \in Range(TablesIn(soup)) :
          \E u \in Range(find_all(TreeAtCollect, n, {"table"}, TRUE)) : ~Attached(soup, u)

====
